---- MODULE Spec2Model ----
(***************************************************************************)
(* Model of MCTS_player (agent.h): the RAVE Monte Carlo tree search agent  *)
(* for NoGo.  The agent's fields are the variables, one action per handler *)
(* or loop step.  board.h and action.h are not part of the sources at      *)
(* hand: the board oracle below follows the rules of NoGo (a placement is  *)
(* legal on an empty cell when afterwards every group still has a          *)
(* liberty).                                                               *)
(***************************************************************************)
EXTENDS Integers, Sequences, FiniteSets, TLC

(* ------------------------------- bounds -------------------------------- *)
\* width of the board (board::size_x)
SizeX == 3
\* iterations of the search loop after which the deadline has certainly passed
MaxIter == 3
\* take_action calls the environment makes in one run of the model
MaxCalls == 2

(* ------------------------------ the board ------------------------------ *)
\* height of the board (board::size_y): the board of the model is a strip, one row high
SizeY == 1

Cells == 0 .. (SizeX * SizeY - 1)

Row(p) == p \div SizeX

Col(p) == p % SizeX

OnBoard(r, k) == r >= 0 /\ r < SizeY /\ k >= 0 /\ k < SizeX

CellAt(r, k) == r * SizeX + k

Neighbours(p) ==
    { q \in Cells : \/ (Row(q) = Row(p) /\ (Col(q) = Col(p) + 1 \/ Col(q) + 1 = Col(p)))
                    \/ (Col(q) = Col(p) /\ (Row(q) = Row(p) + 1 \/ Row(q) + 1 = Row(p))) }

Other(w) == IF w = "black" THEN "white" ELSE IF w = "white" THEN "black" ELSE w

EmptyBoard == [p \in Cells |-> "empty"]

EmptyCells(b) == { p \in Cells : b[p] = "empty" }

\* the group of stones connected to the cells of S (S is closed under Grow at the fixpoint)
RECURSIVE Group(_, _)
Group(b, S) ==
    LET T == S \cup { q \in Cells : \E p \in S : q \in Neighbours(p) /\ b[q] = b[p] }
    IN  IF T = S THEN S ELSE Group(b, T)

HasLiberty(b, p) == \E q \in Group(b, {p}) : \E n \in Neighbours(q) : b[n] = "empty"

Placed(b, p, w) == [b EXCEPT ![p] = w]

\* board::place: legal iff the cell is empty and no group is left without a liberty
Legal(b, p, w) ==
    /\ b[p] = "empty"
    /\ LET a == Placed(b, p, w)
       IN  /\ HasLiberty(a, p)
           /\ \A n \in Neighbours(p) : a[n] = Other(w) => HasLiberty(a, n)

LegalCells(b, w) == { p \in Cells : Legal(b, p, w) }

\* positions in which every stone's group has a liberty
ValidBoard(b) == \A p \in Cells : b[p] # "empty" => HasLiberty(b, p)

(* ------------------------- actions and statistics ---------------------- *)
\* action::place(i, who): a placement carries a cell and a side
Place(i, w) == [pos |-> i, who |-> w]

\* action(): the default action, no placement
NoMove == [pos |-> -1, who |-> "empty"]

\* struct v
NewV == [total |-> 0, win |-> 0]

\* std::map::operator[]: a lookup of a missing key inserts a default entry
Touch(tbl, m) == IF m \in DOMAIN tbl THEN tbl ELSE tbl @@ (m :> NewV)

TotalOf(tbl, m) == IF m \in DOMAIN tbl THEN tbl[m].total ELSE 0

WinOf(tbl, m) == IF m \in DOMAIN tbl THEN tbl[m].win ELSE 0

\* struct node
NewNode(par, st, mv) ==
    [total |-> 0, win |-> 0, parent |-> par, children |-> <<>>, state |-> st, move |-> mv]

NULL == 0

\* std::shuffle: any permutation of the sequence
Perms(s) ==
    { [i \in 1 .. Len(s) |-> s[f[i]]] :
        f \in { g \in [1 .. Len(s) -> 1 .. Len(s)] :
                  \A i, j \in 1 .. Len(s) : g[i] = g[j] => i = j } }

Range(s) == { s[i] : i \in 1 .. Len(s) }

\* a loop over space that finds no move legal
FirstLegalNone(sp, b, w, i) == 0

\* the first move of the sequence that is legal for side w on board b (0 if none)
RECURSIVE FirstLegal(_, _, _, _)
FirstLegal(sp, b, w, i) ==
    IF i > Len(sp) THEN 0
    ELSE IF Legal(b, sp[i].pos, w) THEN i
    ELSE FirstLegal(sp, b, w, i + 1)

(* --------------------------- heuristic bonus --------------------------- *)
\* apply2(b, who, dr, dk) == illegal_same_color: the cell at that offset holds who's stone
SameColourAt(b, p, w, dr, dk) ==
    /\ OnBoard(Row(p) + dr, Col(p) + dk)
    /\ b[CellAt(Row(p) + dr, Col(p) + dk)] = w

\* apply_up/down/left/right == legal: the neighbour at that offset is an empty cell
EmptyAt(b, p, dr, dk) ==
    /\ OnBoard(Row(p) + dr, Col(p) + dk)
    /\ b[CellAt(Row(p) + dr, Col(p) + dk)] = "empty"

Bit(x) == IF x THEN 1 ELSE 0

\* count_around_empty: <<empty, up, down, left, right>>
CountAroundEmpty(b, p, w) ==
    LET up    == EmptyAt(b, p, -1, 0)
        down  == EmptyAt(b, p, 1, 0)
        left  == EmptyAt(b, p, 0, -1)
        right == EmptyAt(b, p, 0, 1)
    IN  << Bit(up) + Bit(down) + Bit(left) + Bit(right),
           IF up THEN Bit(SameColourAt(b, p, w, -1, -1)) + Bit(SameColourAt(b, p, w, -1, 1))
                      + Bit(SameColourAt(b, p, w, -2, 0)) ELSE 0,
           IF down THEN Bit(SameColourAt(b, p, w, 1, -1)) + Bit(SameColourAt(b, p, w, 1, 1))
                      + Bit(SameColourAt(b, p, w, 2, 0)) ELSE 0,
           IF left THEN Bit(SameColourAt(b, p, w, -1, -1)) + Bit(SameColourAt(b, p, w, 1, -1))
                      + Bit(SameColourAt(b, p, w, 0, -2)) ELSE 0,
           IF right THEN Bit(SameColourAt(b, p, w, -1, 1)) + Bit(SameColourAt(b, p, w, 1, 1))
                      + Bit(SameColourAt(b, p, w, 0, 2)) ELSE 0 >>

\* float weights[4] = {0.0, 0.03, 0.07, 0.1}, in hundredths
Weights == <<0, 3, 7, 10>>

\* counts[0] * 0.01, then for i = 1 .. 3: weights[counts[i]] * counts[i]; in hundredths
Bonus(counts) ==
    counts[1] + Weights[counts[2] + 1] * counts[2]
              + Weights[counts[3] + 1] * counts[3]
              + Weights[counts[4] + 1] * counts[4]

(* ------------------------------- scores -------------------------------- *)
\* The exploration constant c is a float set from the option c=..., and left
\* uninitialised without it.  Two values stand for it: 0, and a negative value
\* so large that c * exploitation < -3 whenever exploitation > 0.
CValues == {"zero", "negbig"}

\* UCT_RAVE(cur) + bonus as a float: n, w the entry of cur->move, pt the parent's
\* total.  0/0 and sqrt(log(0)/n) are NaN; log(1) = 0 makes the exploitation 0.
\* A number is kept as the fraction num/den, in hundredths.
Score(cc, n, w, pt, bonus) ==
    IF n = 0 \/ pt = 0 THEN [kind |-> "nan", num |-> 0, den |-> 1]
    ELSE IF pt > 1 /\ cc = "negbig" THEN [kind |-> "low", num |-> 0, den |-> 1]
    ELSE [kind |-> "num", num |-> 100 * w + bonus * n, den |-> n]

\* a > b for two scores that are numbers
Greater(a, b) == a.num * b.den > b.num * a.den

\* uct > -1 (a comparison with NaN is false)
AboveMinusOne(s) == s.kind = "num" /\ Greater(s, [kind |-> "num", num |-> -100, den |-> 1])

(* ------------------------------ the agent ------------------------------ *)
VARIABLES
    who_cpy,        \* the agent's side (role=black|white)
    c,              \* the exploration constant
    random_player,  \* the random flag
    space,          \* std::vector<action::place> space
    who,            \* the side to move, toggled by change_player
    winner,
    root,           \* node* root
    action2v,       \* std::map<action::place, v>
    ply,
    nodes,          \* the heap: the allocated nodes by address
    freeCount,      \* how often delete was called on each address since the root was made
    uaf,            \* delete_tree read a node after its delete
    pc,             \* where the agent is: idle, or a place inside take_action
    cur,            \* select's, expand's (leaf) and delete_tree's cursor
    sim,            \* the node simulation and backpropagate run on
    cur_state,      \* simulation's board; in random mode the board take_action was given
    result,         \* simulation's return value
    best_move,      \* take_action's best_move, and its return value once idle
    iter,           \* completed iterations of mcts's loop
    calls,          \* take_action calls so far
    placed,         \* stones the running simulation has placed
    scored,         \* the table totals the last step's UCT_RAVE calls divided by
    counts,         \* the vector count_around_empty has handed to the scoring code
    bonus           \* the bonus the scoring code has added for counts, in hundredths

vars == << who_cpy, c, random_player, space, who, winner, root, action2v, ply, nodes,
           freeCount, uaf, pc, cur, sim, cur_state, result, best_move, iter, calls,
           placed, scored, counts, bonus >>

config == << who_cpy, c, random_player >>

\* the scoring code's locals, studied on their own further down
heur == << counts, bonus >>

NoCounts == << 0, 0, 0, 0, 0 >>

Sides == {"black", "white"}

Count(b, w) == Cardinality({ p \in Cells : b[p] = w })

\* the boards the environment passes to take_action: positions of a game in which
\* it is the agent's turn (black moves first)
RootStates ==
    { b \in [Cells -> {"empty", "black", "white"}] :
        /\ ValidBoard(b)
        /\ Count(b, "black") = Count(b, "white") + (IF who_cpy = "white" THEN 1 ELSE 0) }

\* values the uninitialised piece_type winner can hold
UninitPiece == {"empty", "black", "white"}

\* values an uninitialised int can hold: one inside use_time's index range, one outside
UninitPly == {-1, 0}

\* MCTS_player::MCTS_player and random_agent::random_agent
Init ==
    /\ who_cpy \in Sides
    /\ c \in CValues
    /\ random_player \in BOOLEAN
    /\ space = [i \in 1 .. (SizeX * SizeY) |-> Place(i - 1, who_cpy)]
    /\ who = who_cpy
    /\ winner \in UninitPiece
    /\ root = NULL
    /\ action2v = << >>
    /\ ply \in UninitPly
    /\ nodes = << >>
    /\ freeCount = << >>
    /\ uaf = FALSE
    /\ pc = "idle"
    /\ cur = NULL
    /\ sim = NULL
    /\ cur_state = EmptyBoard
    /\ result = 0
    /\ best_move = NoMove
    /\ iter = 0
    /\ calls = 0
    /\ placed = 0
    /\ scored = {}
    /\ counts = NoCounts
    /\ bonus = 0

\* open_episode
OpenEpisode ==
    /\ pc = "idle"
    /\ winner' = "empty"
    /\ root' = NULL
    /\ action2v' = << >>
    /\ ply' = 0
    /\ UNCHANGED << config, space, who, nodes, freeCount, uaf, pc, cur, sim, cur_state,
                    result, best_move, iter, calls, placed, scored >>
    /\ UNCHANGED heur

\* take_action counting the ply before it looks at the random flag
RandomTakeActionCountsPly ==
    /\ pc = "idle"
    /\ random_player
    /\ calls < MaxCalls
    /\ \E state \in RootStates, sp \in Perms(space) :
         /\ space' = sp
         /\ cur_state' = state
         /\ LET i == FirstLegal(sp, state, who_cpy, 1)
            IN  best_move' = IF i = 0 THEN NoMove ELSE sp[i]
    /\ calls' = calls + 1
    /\ ply' = ply + 1
    /\ UNCHANGED << config, who, winner, root, action2v, nodes, freeCount, uaf, pc,
                    cur, sim, result, iter, placed, scored >>
    /\ UNCHANGED heur

\* take_action with the random flag: shuffle space, return the first legal move
RandomTakeAction ==
    /\ pc = "idle"
    /\ random_player
    /\ calls < MaxCalls
    /\ \E state \in RootStates, sp \in Perms(space) :
         /\ space' = sp
         /\ cur_state' = state
         /\ LET i == FirstLegal(sp, state, who_cpy, 1)
            IN  best_move' = IF i = 0 THEN NoMove ELSE sp[i]
    /\ calls' = calls + 1
    /\ UNCHANGED << config, who, winner, root, action2v, ply, nodes, freeCount, uaf, pc,
                    cur, sim, result, iter, placed, scored >>
    /\ UNCHANGED heur

\* take_action in search mode up to the first select: root = new node, mcts() begins
TakeAction ==
    /\ pc = "idle"
    /\ ~random_player
    /\ calls < MaxCalls
    /\ \E state \in RootStates : nodes' = (1 :> NewNode(NULL, state, NoMove))
    /\ root' = 1
    /\ freeCount' = (1 :> 0)
    /\ uaf' = FALSE
    /\ calls' = calls + 1
    /\ iter' = 0
    /\ best_move' = NoMove
    /\ pc' = "select"
    /\ cur' = 1
    /\ who' = who_cpy
    /\ scored' = {}
    /\ UNCHANGED << config, space, winner, action2v, ply, sim, cur_state, result, placed >>
    /\ UNCHANGED heur

(* ------------------------------- select -------------------------------- *)
\* the bonus select and take_action add to a child's score, in hundredths
BonusOf(ch) == Bonus(CountAroundEmpty(nodes[root].state, nodes[ch].move.pos, who))

\* cur->parent's total as UCT_RAVE reads it: the root's own counter, or the table
\* entry of the parent's incoming move
ParentTotal(tbl, ch) ==
    IF nodes[ch].parent = root THEN nodes[root].total
    ELSE TotalOf(tbl, nodes[nodes[ch].parent].move)

\* the table after UCT_RAVE(ch) has read it
AfterRave(tbl, ch) ==
    IF nodes[ch].parent = root THEN Touch(tbl, nodes[ch].move)
    ELSE Touch(Touch(tbl, nodes[ch].move), nodes[nodes[ch].parent].move)

\* UCT_RAVE(ch) plus the bonus
Uct(tbl, ch) ==
    Score(c, TotalOf(tbl, nodes[ch].move), WinOf(tbl, nodes[ch].move),
          ParentTotal(tbl, ch), BonusOf(ch))

\* select's for loop without the break after a child with no recorded visit
RECURSIVE SelectScanNoBreak(_, _, _, _, _)
SelectScanNoBreak(kids, i, best, tbl, log) ==
    IF i > Len(kids) THEN [best |-> best, tbl |-> tbl, log |-> log]
    ELSE LET ch == kids[i]
             m  == nodes[ch].move
         IN  IF TotalOf(tbl, m) = 0
             THEN SelectScanNoBreak(kids, i + 1, ch, Touch(tbl, m), log)
             ELSE SelectScanNoBreak(kids, i + 1,
                                    IF AboveMinusOne(Uct(tbl, ch)) THEN ch ELSE best,
                                    AfterRave(tbl, ch),
                                    log \cup {[site |-> "select", total |-> TotalOf(tbl, m)]})

\* select's for loop over the shuffled children, from position i on: the first child
\* with no recorded visit wins at once; otherwise every child with uct > best_uct
\* replaces best_child, and best_uct stays -1 (line 228 assigns uct, not best_uct)
RECURSIVE SelectScan(_, _, _, _, _)
SelectScan(kids, i, best, tbl, log) ==
    IF i > Len(kids) THEN [best |-> best, tbl |-> tbl, log |-> log]
    ELSE LET ch == kids[i]
             m  == nodes[ch].move
         IN  IF TotalOf(tbl, m) = 0
             THEN [best |-> ch, tbl |-> Touch(tbl, m), log |-> log]
             ELSE SelectScan(kids, i + 1,
                             IF AboveMinusOne(Uct(tbl, ch)) THEN ch ELSE best,
                             AfterRave(tbl, ch),
                             log \cup {[site |-> "select", total |-> TotalOf(tbl, m)]})

\* one turn of select's while loop; a NULL best_child is dereferenced by the loop test
SelectStep ==
    /\ pc = "select"
    /\ nodes[cur].children # << >>
    /\ \E kids \in Perms(nodes[cur].children) :
         LET r == SelectScan(kids, 1, NULL, action2v, {})
         IN  /\ nodes' = [nodes EXCEPT ![cur].children = kids]
             /\ action2v' = r.tbl
             /\ scored' = r.log
             /\ cur' = r.best
             /\ pc' = IF r.best = NULL THEN "crashed" ELSE "select"
    /\ who' = Other(who)
    /\ UNCHANGED << config, space, winner, root, ply, freeCount, uaf, sim, cur_state,
                    result, best_move, iter, calls, placed >>
    /\ UNCHANGED heur

(* ------------------------------- expand -------------------------------- *)
\* expand's loop stopping one move short of the end of space
RECURSIVE LegalMovesShort(_, _, _, _)
LegalMovesShort(sp, b, w, i) ==
    IF i >= Len(sp) THEN << >>
    ELSE IF Legal(b, sp[i].pos, w) THEN << sp[i] >> \o LegalMovesShort(sp, b, w, i + 1)
    ELSE LegalMovesShort(sp, b, w, i + 1)

\* the moves of space, in order, that side w may legally place on board b
RECURSIVE LegalMoves(_, _, _, _)
LegalMoves(sp, b, w, i) ==
    IF i > Len(sp) THEN << >>
    ELSE IF Legal(b, sp[i].pos, w) THEN << sp[i] >> \o LegalMoves(sp, b, w, i + 1)
    ELSE LegalMoves(sp, b, w, i + 1)

NumNodes == Cardinality(DOMAIN nodes)

\* expand(leaf), once select has reached a node without children
Expand ==
    /\ pc = "select"
    /\ nodes[cur].children = << >>
    /\ LET moves == LegalMoves(space, nodes[cur].state, who, 1)
           n     == NumNodes
           k     == Len(moves)
       IN  /\ nodes' = [id \in 1 .. (n + k) |->
                          IF id > n
                          THEN NewNode(cur, Placed(nodes[cur].state, moves[id - n].pos, who),
                                       moves[id - n])
                          ELSE IF id = cur
                          THEN [nodes[id] EXCEPT !.children = [j \in 1 .. k |-> n + j]]
                          ELSE nodes[id]]
           /\ freeCount' = [id \in 1 .. (n + k) |-> 0]
    /\ pc' = "expanded"
    /\ scored' = {}
    /\ UNCHANGED << config, space, who, winner, root, action2v, ply, uaf, cur, sim,
                    cur_state, result, best_move, iter, calls, placed >>
    /\ UNCHANGED heur

(* ----------------------------- simulation ------------------------------ *)
\* random_child(leaf), then simulation(child) up to its loop: the board is copied
\* and change_player() is called once
RandomChild ==
    /\ pc = "expanded"
    /\ nodes[cur].children # << >>
    /\ \E kids \in Perms(nodes[cur].children) :
         /\ nodes' = [nodes EXCEPT ![cur].children = kids]
         /\ sim' = kids[1]
         /\ cur_state' = nodes[kids[1]].state
    /\ who' = Other(who)
    /\ placed' = 0
    /\ pc' = "simulate"
    /\ UNCHANGED << config, space, winner, root, action2v, ply, freeCount, uaf, cur,
                    result, best_move, iter, calls, scored >>
    /\ UNCHANGED heur

\* leaf->children.empty(): simulation(leaf) up to its loop
TerminalLeaf ==
    /\ pc = "expanded"
    /\ nodes[cur].children = << >>
    /\ sim' = cur
    /\ cur_state' = nodes[cur].state
    /\ who' = Other(who)
    /\ placed' = 0
    /\ pc' = "simulate"
    /\ UNCHANGED << config, space, winner, root, action2v, ply, nodes, freeCount, uaf,
                    cur, result, best_move, iter, calls, scored >>
    /\ UNCHANGED heur

\* is_terminal's legal_count == 0
IsTerminal(b, w) == \A i \in 1 .. Len(space) : ~Legal(b, space[i].pos, w)

\* find_winner that makes the side to move the winner
FindWinnerSelf(w) == w

\* find_winner
FindWinner(w) == IF w = "black" THEN "white" ELSE IF w = "white" THEN "black" ELSE winner

\* one turn of simulation's while loop: shuffle space, play the first legal move,
\* change_player()
SimStep ==
    /\ pc = "simulate"
    /\ ~IsTerminal(cur_state, who)
    /\ \E sp \in Perms(space) :
         /\ space' = sp
         /\ LET i == FirstLegal(sp, cur_state, who, 1)
            IN  cur_state' = IF i = 0 THEN cur_state ELSE Placed(cur_state, sp[i].pos, who)
    /\ who' = Other(who)
    /\ placed' = placed + 1
    /\ UNCHANGED << config, winner, root, action2v, ply, nodes, freeCount, uaf, pc, cur,
                    sim, result, best_move, iter, calls, scored >>
    /\ UNCHANGED heur

\* simulation returning without who = who_cpy
SimEndNoRestore ==
    /\ pc = "simulate"
    /\ IsTerminal(cur_state, who)
    /\ winner' = FindWinner(who)
    /\ result' = IF FindWinner(who) = who_cpy THEN 1 ELSE 0
    /\ pc' = "backprop"
    /\ UNCHANGED << config, space, who, root, action2v, ply, nodes, freeCount, uaf, cur,
                    sim, cur_state, best_move, iter, calls, placed, scored >>
    /\ UNCHANGED heur

\* the loop's exit: is_terminal sets winner, who = who_cpy, return winner == who
SimEnd ==
    /\ pc = "simulate"
    /\ IsTerminal(cur_state, who)
    /\ winner' = FindWinner(who)
    /\ who' = who_cpy
    /\ result' = IF FindWinner(who) = who_cpy THEN 1 ELSE 0
    /\ pc' = "backprop"
    /\ UNCHANGED << config, space, root, action2v, ply, nodes, freeCount, uaf, cur, sim,
                    cur_state, best_move, iter, calls, placed, scored >>
    /\ UNCHANGED heur

(* ---------------------------- backpropagate ---------------------------- *)
\* a visit that records the win but not the visit
VisitWinOnly(e, res) == [total |-> e.total, win |-> e.win + res]

\* struct v after one more visit with the given result
Visit(e, res) == [total |-> e.total + 1, win |-> e.win + res]

\* backpropagate's while loop stopping at the children of the root
RECURSIVE BackTableBelowRoot(_, _, _)
BackTableBelowRoot(tbl, n, res) ==
    IF n = root \/ nodes[n].parent = root THEN tbl
    ELSE LET m == nodes[n].move
             t == Touch(tbl, m)
         IN  BackTableBelowRoot([t EXCEPT ![m] = Visit(t[m], res)], nodes[n].parent, res)

\* backpropagate's while loop running until it has left the tree through the root
RECURSIVE BackTableThroughRoot(_, _, _)
BackTableThroughRoot(tbl, n, res) ==
    IF n = NULL THEN tbl
    ELSE LET m == nodes[n].move
             t == Touch(tbl, m)
         IN  BackTableThroughRoot([t EXCEPT ![m] = Visit(t[m], res)], nodes[n].parent, res)

\* backpropagate's while loop from node n up to the root
RECURSIVE BackTable(_, _, _)
BackTable(tbl, n, res) ==
    IF n = root THEN tbl
    ELSE LET m == nodes[n].move
             t == Touch(tbl, m)
         IN  BackTable([t EXCEPT ![m] = Visit(t[m], res)], nodes[n].parent, res)

\* backpropagate(sim, result), then mcts's deadline test: the clock decides, and the
\* model lets the deadline pass after MaxIter iterations at the latest
Backpropagate ==
    /\ pc = "backprop"
    /\ action2v' = BackTable(action2v, sim, result)
    /\ nodes' = [nodes EXCEPT ![root] = [@ EXCEPT !.total = @ + 1, !.win = @ + result]]
    /\ winner' = "empty"
    /\ iter' = iter + 1
    /\ \E expired \in BOOLEAN :
         /\ iter + 1 >= MaxIter => expired
         /\ pc' = IF expired THEN "decide" ELSE "select"
    /\ cur' = root
    /\ cur_state' = EmptyBoard
    /\ placed' = 0
    /\ UNCHANGED << config, space, who, root, ply, freeCount, uaf, sim, result,
                    best_move, calls, scored >>
    /\ UNCHANGED heur

(* ------------------------- the move take_action returns ---------------- *)
\* float best_uct = -1
MinusOne == [kind |-> "num", num |-> -100, den |-> 1]

\* take_action's for loop over root->children from position i on; best is best_uct
RECURSIVE DecideScan(_, _, _, _, _, _)
DecideScan(kids, i, best, move, tbl, log) ==
    IF i > Len(kids) THEN [move |-> move, tbl |-> tbl, log |-> log]
    ELSE LET ch     == kids[i]
             s      == Uct(tbl, ch)
             better == s.kind = "num" /\ Greater(s, best)
         IN  DecideScan(kids, i + 1,
                        IF better THEN s ELSE best,
                        IF better THEN nodes[ch].move ELSE move,
                        AfterRave(tbl, ch),
                        log \cup {[site |-> "take_action",
                                   total |-> TotalOf(tbl, nodes[ch].move)]})

\* take_action after mcts() has returned: ply++, the best root child's move
Decide ==
    /\ pc = "decide"
    /\ ply' = ply + 1
    /\ LET r == DecideScan(nodes[root].children, 1, MinusOne, NoMove, action2v, {})
       IN  /\ best_move' = r.move
           /\ action2v' = r.tbl
           /\ scored' = r.log
    /\ cur' = root
    /\ pc' = "delete"
    /\ UNCHANGED << config, space, who, winner, root, nodes, freeCount, uaf, sim,
                    cur_state, result, iter, calls, placed >>
    /\ UNCHANGED heur

(* ----------------------------- delete_tree ----------------------------- *)
Live(id) == id \in DOMAIN nodes

\* delete_tree's inner while loop from node n: the last child, again and again;
\* NULL when the walk reads a node that is no longer allocated
RECURSIVE Deepest(_)
Deepest(n) ==
    IF ~Live(n) THEN NULL
    ELSE IF nodes[n].children = << >> THEN n
    ELSE Deepest(nodes[n].children[Len(nodes[n].children)])

PopBack(s) == SubSeq(s, 1, Len(s) - 1)

\* delete(d) without tmp->children.pop_back()
ReleaseNoPop(d, tmp) == [id \in (DOMAIN nodes) \ {d} |-> nodes[id]]

\* the heap after tmp->children.pop_back() and delete(d)
Release(d, tmp) ==
    [id \in (DOMAIN nodes) \ {d} |->
       IF id = tmp THEN [nodes[id] EXCEPT !.children = PopBack(@)] ELSE nodes[id]]

\* one turn of delete_tree's outer while loop
DeleteStep ==
    /\ pc = "delete"
    /\ Live(root)
    /\ nodes[root].children # << >>
    /\ LET d   == Deepest(cur)
           tmp == IF d = NULL THEN NULL ELSE nodes[d].parent
       IN  IF d = NULL \/ ~Live(tmp)
           THEN /\ uaf' = TRUE
                /\ pc' = "crashed"
                /\ UNCHANGED << nodes, freeCount, cur >>
           ELSE /\ nodes' = Release(d, tmp)
                /\ freeCount' = [freeCount EXCEPT ![d] = @ + 1]
                /\ cur' = tmp
                /\ UNCHANGED << uaf, pc >>
    /\ UNCHANGED << config, space, who, winner, root, action2v, ply, sim, cur_state,
                    result, best_move, iter, calls, placed, scored >>
    /\ UNCHANGED heur

\* delete(root) and take_action's return
DeleteRoot ==
    /\ pc = "delete"
    /\ Live(root)
    /\ nodes[root].children = << >>
    /\ nodes' = [id \in (DOMAIN nodes) \ {root} |-> nodes[id]]
    /\ freeCount' = [freeCount EXCEPT ![root] = @ + 1]
    /\ pc' = "idle"
    /\ cur' = NULL
    /\ sim' = NULL
    /\ result' = 0
    /\ iter' = 0
    /\ scored' = {}
    /\ UNCHANGED << config, space, who, winner, root, action2v, ply, uaf, cur_state,
                    best_move, calls, placed >>
    /\ UNCHANGED heur

Next ==
    \/ OpenEpisode
    \/ RandomTakeAction
    \/ TakeAction
    \/ SelectStep
    \/ Expand
    \/ RandomChild
    \/ TerminalLeaf
    \/ SimStep
    \/ SimEnd
    \/ Backpropagate
    \/ Decide
    \/ DeleteStep
    \/ DeleteRoot

Spec == Init /\ [][Next]_vars

(* ================================ claims ================================ *)

\* C1: in every reachable state every entry of action2v has 0 <= win <= total.
C1_WinsWithinVisits ==
    \A m \in DOMAIN action2v :
        0 <= action2v[m].win /\ action2v[m].win <= action2v[m].total

\* a table entry that has seen both a won and a lost rollout
C1_Witness ==
    \E m \in DOMAIN action2v : 0 < action2v[m].win /\ action2v[m].win < action2v[m].total

\* C2 (as stated): a search-mode take_action starts with a table that holds no visits
\* or wins of an earlier call, and the table is discarded once the move is chosen.
SearchStart == pc = "select" /\ iter = 0 /\ cur = root /\ nodes[root].children = << >>

NoRecordedVisits == \A m \in DOMAIN action2v : action2v[m].total = 0 /\ action2v[m].win = 0

C2_TablePerSearch ==
    /\ SearchStart => NoRecordedVisits
    /\ pc = "idle" => NoRecordedVisits

\* C3 (as stated): in search mode, when the root position has a legal move for the
\* agent's side, the move take_action returns is a legal placement for that side.
C3_ReturnsLegalMove ==
    (pc = "delete" /\ Live(root) /\ LegalCells(nodes[root].state, who_cpy) # {})
        => /\ best_move # NoMove
           /\ Legal(nodes[root].state, best_move.pos, who_cpy)

\* C4 (as stated): every call of UCT_RAVE, in select and in take_action's final scoring,
\* finds total >= 1 in the table entry of the scored child's incoming move.
C4_NoRateOfUnvisited == \A e \in scored : e.total >= 1

\* C5: at every step of select's descent, if some child of the current node has no
\* recorded visit, the child descended into is one with no recorded visit.
ZeroKids ==
    { ch \in Range(nodes[cur].children) : TotalOf(action2v, nodes[ch].move) = 0 }

C5_UnvisitedChildFirst ==
    [][(pc = "select" /\ nodes[cur].children # << >> /\ ZeroKids # {})
          => cur' \in ZeroKids]_vars

\* select has descended into an unvisited child although a sibling has visits
C5_Witness ==
    /\ pc = "select"
    /\ cur # root
    /\ cur # NULL
    /\ TotalOf(action2v, nodes[cur].move) = 0
    /\ \E s \in Range(nodes[nodes[cur].parent].children) :
           s # cur /\ TotalOf(action2v, nodes[s].move) >= 1

\* the side to move at a node, from its depth alone: the agent at the root, then in turn
RECURSIVE Depth(_)
Depth(n) == IF n = root THEN 0 ELSE 1 + Depth(nodes[n].parent)

SideToMove(n) == IF Depth(n) % 2 = 0 THEN who_cpy ELSE Other(who_cpy)

ChildCells(n) == { nodes[ch].move.pos : ch \in Range(nodes[n].children) }

\* C6: after expand(leaf) the children's incoming moves are exactly the cells where the
\* side to move at leaf may legally place, one child per cell; each child has
\* parent = leaf and state = the board after that placement; children is empty iff
\* there is no legal move.
C6_ExpandMatchesLegalMoves ==
    pc = "expanded" =>
        LET side == SideToMove(cur)
            lc   == LegalCells(nodes[cur].state, side)
        IN  /\ ChildCells(cur) = lc
            /\ Len(nodes[cur].children) = Cardinality(lc)
            /\ \A ch \in Range(nodes[cur].children) :
                 /\ nodes[ch].parent = cur
                 /\ nodes[ch].state = Placed(nodes[cur].state, nodes[ch].move.pos, side)
            /\ (nodes[cur].children = << >>) <=> (lc = {})

\* a leaf below the root has been expanded for the opponent, whose legal cells are not
\* the agent's
C6_Witness ==
    /\ pc = "expanded"
    /\ cur # root
    /\ nodes[cur].children # << >>
    /\ LegalCells(nodes[cur].state, who_cpy) # ChildCells(cur)

\* C7 (as stated): one full cycle from a root without children and an empty table leaves
\* exactly one table entry, for the simulated node's incoming move, with visits = 1, and
\* the root's visits and wins have both grown by exactly 1.
FirstBackprop ==
    /\ pc = "backprop"
    /\ iter = 0
    /\ action2v = << >>
    /\ nodes[root].total = 0
    /\ nodes[root].win = 0

C7_FirstCycleAsStated ==
    [][FirstBackprop =>
         /\ DOMAIN action2v' = {nodes[sim].move}
         /\ action2v'[nodes[sim].move].total = 1
         /\ nodes'[root].total = 1
         /\ nodes'[root].win = 1]_vars

\* C7 (amended): after that cycle the root's visits are 1 and its wins are the rollout's
\* result (0 or 1); when the root has a legal move the table holds exactly one entry, for
\* the simulated node's incoming move, with visits = 1 and wins = result; when the root
\* has none the simulated node is the root and the table stays empty.
C7_FirstCycle ==
    [][FirstBackprop =>
         /\ result \in {0, 1}
         /\ nodes'[root].total = 1
         /\ nodes'[root].win = result
         /\ IF nodes[root].children # << >>
            THEN /\ DOMAIN action2v' = {nodes[sim].move}
                 /\ action2v'[nodes[sim].move] = [total |-> 1, win |-> result]
            ELSE /\ sim = root
                 /\ action2v' = << >>]_vars

\* the first cycle of a search has ended with a lost rollout: one entry (1, 0), root (1, 0)
C7_Witness ==
    /\ pc \in {"select", "decide"}
    /\ iter = 1
    /\ sim # root
    /\ DOMAIN action2v = {nodes[sim].move}
    /\ action2v[nodes[sim].move] = [total |-> 1, win |-> 0]
    /\ nodes[root].total = 1
    /\ nodes[root].win = 0

\* C8: delete_tree terminates and frees every node made during the search, the root
\* included, exactly once: no address is deleted twice, none is left allocated when
\* take_action returns, and the teardown reads no node after its delete.
TeardownSafe ==
    /\ ~uaf
    /\ \A id \in DOMAIN freeCount :
         /\ freeCount[id] <= 1
         /\ Live(id) <=> freeCount[id] = 0
    /\ pc = "idle" => /\ DOMAIN nodes = {}
                      /\ \A id \in DOMAIN freeCount : freeCount[id] = 1

C8_DeleteTreeFreesAllOnce ==
    /\ []TeardownSafe
    /\ [][pc = "delete" => /\ pc' \in {"delete", "idle"}
                           /\ Cardinality(DOMAIN nodes') = Cardinality(DOMAIN nodes) - 1]_vars

\* take_action has returned after tearing down a tree three levels deep
C8_Witness ==
    /\ pc = "idle"
    /\ Cardinality(DOMAIN freeCount) >= 5
    /\ \A id \in DOMAIN freeCount : freeCount[id] = 1
    /\ DOMAIN nodes = {}

\* one cell of b was empty and holds w's stone in a; nothing else differs
OneStoneAdded(b, a, w) ==
    \E p \in Cells : b[p] = "empty" /\ a = Placed(b, p, w)

\* the rollout runs on a child that random_child has picked
ChildRollout == pc = "simulate" /\ sim # cur

\* C9: a rollout from a node random_child has picked starts with the side to move at
\* that node, alternates sides with every placement, stops exactly when the side to
\* move has no legal move, declares that side the loser and the other the winner (black
\* without a legal move makes white the winner), and returns 1 iff the winner is who_cpy.
C9_RolloutWinner ==
    /\ [][(pc = "expanded" /\ pc' = "simulate" /\ sim' # cur')
             => who' = Other(nodes'[sim'].state[nodes'[sim'].move.pos])]_vars
    /\ [][(ChildRollout /\ pc' = "simulate")
             => /\ LegalCells(cur_state, who) # {}
                /\ OneStoneAdded(cur_state, cur_state', who)
                /\ who' = Other(who)]_vars
    /\ [][(ChildRollout /\ pc' # "simulate")
             => /\ LegalCells(cur_state, who) = {}
                /\ winner' = Other(who)
                /\ who = "black" => winner' = "white"
                /\ who' = who_cpy
                /\ result' = IF Other(who) = who_cpy THEN 1 ELSE 0]_vars

\* a rollout from a child has ended after a placement by white with black unable to
\* move: white is the winner and the black agent gets 0
C9_Witness ==
    /\ pc = "backprop"
    /\ sim # cur
    /\ placed >= 1
    /\ LegalCells(cur_state, "black") = {}
    /\ winner = "white"
    /\ who_cpy = "black"
    /\ result = 0

\* C10: every rollout terminates; each step of its loop places exactly one stone on a
\* cell that was empty, and the placements never outnumber the empty cells of the board
\* the rollout started from.
RolloutCount ==
    pc \in {"simulate", "backprop"} =>
        /\ placed + Cardinality(EmptyCells(cur_state))
              = Cardinality(EmptyCells(nodes[sim].state))
        /\ placed <= Cardinality(EmptyCells(nodes[sim].state))

C10_RolloutBounded ==
    /\ []RolloutCount
    /\ [][(pc = "simulate" /\ pc' = "simulate")
             => /\ placed' = placed + 1
                /\ \E w \in Sides : OneStoneAdded(cur_state, cur_state', w)]_vars
    /\ (pc = "simulate") ~> (pc = "backprop")

\* a rollout has ended after filling several cells
C10_Witness ==
    /\ pc = "backprop"
    /\ placed >= 2

\* Rollouts alone: simulation's loop entered on any position with either side to move,
\* as it is entered from the nodes of any tree.  The loop is not left waiting: its
\* next step is taken.
RolloutInit ==
    /\ who_cpy \in Sides
    /\ c = "zero"
    /\ random_player = FALSE
    /\ space = [i \in 1 .. (SizeX * SizeY) |-> Place(i - 1, who_cpy)]
    /\ who \in Sides
    /\ winner = "empty"
    /\ root = 1
    /\ action2v = << >>
    /\ ply = 0
    /\ cur_state \in { b \in [Cells -> {"empty", "black", "white"}] : ValidBoard(b) }
    /\ nodes = (1 :> NewNode(NULL, cur_state, NoMove))
    /\ freeCount = (1 :> 0)
    /\ uaf = FALSE
    /\ pc = "simulate"
    /\ cur = 1
    /\ sim = 1
    /\ result = 0
    /\ best_move = NoMove
    /\ iter = 0
    /\ calls = 1
    /\ placed = 0
    /\ scored = {}
    /\ counts = NoCounts
    /\ bonus = 0

RolloutNext == SimStep \/ SimEnd

RolloutSpec ==
    RolloutInit /\ [][RolloutNext]_vars /\ WF_vars(SimStep) /\ WF_vars(SimEnd)

\* C11: with the random flag set, take_action returns a legal placement for the agent's
\* side whenever the board it was given has one (and the empty action otherwise), and it
\* never enters the search: no node is made, and root, the table and the ply counter are
\* left as they were.
RandomReturn ==
    (random_player /\ calls > 0) =>
        IF LegalCells(cur_state, who_cpy) # {}
        THEN /\ best_move \in Range(space)
             /\ best_move.who = who_cpy
             /\ Legal(cur_state, best_move.pos, who_cpy)
        ELSE best_move = NoMove

C11_RandomModeNoSearch ==
    /\ []RandomReturn
    /\ [](random_player => (pc = "idle" /\ nodes = << >>))
    /\ [][(random_player /\ calls' # calls)
             => /\ root' = root
                /\ action2v' = action2v
                /\ ply' = ply
                /\ nodes' = nodes]_vars

\* a random-mode call inside an episode has returned a placement
C11_Witness ==
    /\ random_player
    /\ calls >= 1
    /\ ply = 0
    /\ winner = "empty"
    /\ best_move # NoMove
    /\ Legal(cur_state, best_move.pos, who_cpy)

\* a value given to the option n: agent::agent stores every key=value pair in meta, and
\* no code reads meta["n"]
OptionN == 2

\* C12 (as stated): with the option n given, the search loop performs exactly n
\* iterations (so that two runs from the same root with the same seed end with the same
\* statistics and the same move).
C12_ExactlyNIterations == pc = "decide" => iter = OptionN

\* C13 (as stated): when expand has made no children, the simulation run on the leaf
\* itself places no stone, declares the side to move at the leaf the loser and the other
\* side the winner, and returns 1 iff that winner is the agent's side.
C13_TerminalLeafLoser ==
    [][(pc = "simulate" /\ sim = cur /\ placed = 0)
          => /\ pc' = "backprop"
             /\ placed' = 0
             /\ winner' = Other(SideToMove(cur))
             /\ result' = IF Other(SideToMove(cur)) = who_cpy THEN 1 ELSE 0]_vars

\* the children of the node select stands on, and whether each has a recorded visit and a
\* score that is a number
Kids == Range(nodes[cur].children)

AllKidsScored ==
    /\ ZeroKids = {}
    /\ \A ch \in Kids : Uct(action2v, ch).kind = "num"

\* C14 (as stated): at a node whose children all have a recorded visit, select descends
\* into a child whose score (RAVE value plus bonus) no sibling's score exceeds.
C14_DescendsIntoBest ==
    [][(pc = "select" /\ nodes[cur].children # << >> /\ AllKidsScored)
          => /\ cur' \in Kids
             /\ \A ch \in Kids : ~Greater(Uct(action2v, ch), Uct(action2v, cur'))]_vars

\* C15: who follows the depth of the descent: select starts at the root with who =
\* who_cpy, after d steps who is the agent's side iff d is even, expand's children hold
\* a stone of the side to move at the leaf, and once a simulation has returned (on a
\* child or on a terminal leaf) who is who_cpy again.
WhoTracksDepth ==
    /\ (pc = "select" /\ cur # NULL) =>
          /\ who = SideToMove(cur)
          /\ who = who_cpy <=> Depth(cur) % 2 = 0
    /\ pc = "expanded" =>
          /\ who = SideToMove(cur)
          /\ \A ch \in Range(nodes[cur].children) :
                 nodes[ch].state[nodes[ch].move.pos] = who
    /\ pc \in {"backprop", "decide", "delete", "idle"} => who = who_cpy

C15_WhoFollowsDepth ==
    /\ []WhoTracksDepth
    /\ [][(pc = "simulate" /\ pc' # "simulate") => who' = who_cpy]_vars

\* a descent has gone two steps down and it is the agent's turn again
C15_Witness ==
    /\ pc = "select"
    /\ cur # NULL
    /\ Depth(cur) = 2
    /\ who = who_cpy
    /\ iter >= 2

\* the nodes from n up to the root, the root left out
RECURSIVE PathNodes(_)
PathNodes(n) == IF n = root THEN {} ELSE {n} \cup PathNodes(nodes[n].parent)

PathMoves == { nodes[n].move : n \in PathNodes(sim) }

\* C16: one backpropagate(node, result) adds exactly 1 visit and result wins to the
\* table entry of the incoming move of every node from the simulated node up to the root
\* (the root left out), adds 1 visit and result wins to the root's own counters, and
\* changes no other table entry and no other node.
C16_BackpropagateFrame ==
    [][pc = "backprop" =>
         /\ result \in {0, 1}
         /\ DOMAIN action2v' = DOMAIN action2v \cup PathMoves
         /\ \A m \in DOMAIN action2v' :
              IF m \in PathMoves
              THEN action2v'[m] = [total |-> TotalOf(action2v, m) + 1,
                                   win   |-> WinOf(action2v, m) + result]
              ELSE action2v'[m] = action2v[m]
         /\ nodes'[root].total = nodes[root].total + 1
         /\ nodes'[root].win = nodes[root].win + result
         /\ DOMAIN nodes' = DOMAIN nodes
         /\ \A n \in DOMAIN nodes \ {root} : nodes'[n] = nodes[n]]_vars

\* a won rollout has been backed up along a path of two nodes, past a table entry that
\* is on no part of that path
C16_Witness ==
    /\ pc \in {"select", "decide"}
    /\ iter >= 1
    /\ sim # NULL
    /\ Live(sim)
    /\ Cardinality(PathNodes(sim)) = 2
    /\ result = 1
    /\ \A m \in PathMoves : WinOf(action2v, m) >= 1
    /\ DOMAIN action2v \ PathMoves # {}

\* C17 (as stated): the incoming move of every node but the root carries the side that
\* made the placement, the side whose stone the node's board shows on that cell (so the
\* same cell taken by black and by white are two keys of the table).
C17_MoveCarriesPlacer ==
    \A n \in DOMAIN nodes \ {root} :
        nodes[n].move.who = nodes[n].state[nodes[n].move.pos]

(* --------------------- the bonus as a function of counts ---------------- *)
\* count_around_empty for a move away from the edges: e says which of the neighbours up,
\* down, left, right is empty; d which of the diagonal cells up-left, up-right,
\* down-left, down-right holds a stone of who; f which of the cells two steps up, down,
\* left, right does
CountsAway(e, d, f) ==
    << Bit(e[1]) + Bit(e[2]) + Bit(e[3]) + Bit(e[4]),
       IF e[1] THEN Bit(d[1]) + Bit(d[2]) + Bit(f[1]) ELSE 0,
       IF e[2] THEN Bit(d[3]) + Bit(d[4]) + Bit(f[2]) ELSE 0,
       IF e[3] THEN Bit(d[1]) + Bit(d[3]) + Bit(f[3]) ELSE 0,
       IF e[4] THEN Bit(d[2]) + Bit(d[4]) + Bit(f[4]) ELSE 0 >>

\* the vectors count_around_empty can return
ReturnableCounts ==
    { CountsAway(e, d, f) : e \in [1 .. 4 -> BOOLEAN], d \in [1 .. 4 -> BOOLEAN],
                            f \in [1 .. 4 -> BOOLEAN] }

\* the scoring code handed any vector count_around_empty can return
BonusInit ==
    /\ who_cpy = "black"
    /\ c = "zero"
    /\ random_player = FALSE
    /\ space = [i \in 1 .. (SizeX * SizeY) |-> Place(i - 1, who_cpy)]
    /\ who = who_cpy
    /\ winner = "empty"
    /\ root = NULL
    /\ action2v = << >>
    /\ ply = 0
    /\ nodes = << >>
    /\ freeCount = << >>
    /\ uaf = FALSE
    /\ pc = "counted"
    /\ cur = NULL
    /\ sim = NULL
    /\ cur_state = EmptyBoard
    /\ result = 0
    /\ best_move = NoMove
    /\ iter = 0
    /\ calls = 0
    /\ placed = 0
    /\ scored = {}
    /\ counts \in ReturnableCounts
    /\ bonus = 0

\* uct = get_value(child) + counts[0] * 0.01, then the for loop over the directions:
\* what select and take_action add to get_value(child)
AddBonus ==
    /\ pc = "counted"
    /\ bonus' = Bonus(counts)
    /\ pc' = "added"
    /\ UNCHANGED << config, space, who, winner, root, action2v, ply, nodes, freeCount, uaf,
                    cur, sim, cur_state, result, best_move, iter, calls, placed, scored,
                    counts >>

BonusNext == AddBonus

BonusSpec == BonusInit /\ [][BonusNext]_vars

\* the weight the spec gives a direction with n supporting stones: 0, 3, 7, 10
ClaimedWeight(n) == Weights[n + 1]

\* C18 (as stated): the bonus added to a child's score, in hundredths, is 1 per empty
\* neighbour plus, for each of the four directions, the weight 0, 3, 7 or 10 chosen by
\* that direction's count, whatever vector count_around_empty returned.
C18_BonusAsStated ==
    pc = "added" =>
        bonus = counts[1] + ClaimedWeight(counts[2]) + ClaimedWeight(counts[3])
                          + ClaimedWeight(counts[4]) + ClaimedWeight(counts[5])

(* ------------------------ the ply counter over an episode --------------- *)
\* the number of entries of use_time
UseTimeLen == 36

\* the cells of the board the agent plays on, board::size_x * board::size_y
EpisodeCells == 81

\* the take_action calls one episode can hold: one agent move per two cells
MaxEpisodeMoves == (EpisodeCells + 1) \div 2

\* an episode just opened: the state after open_episode
PlyInit ==
    /\ who_cpy \in Sides
    /\ c \in CValues
    /\ random_player = FALSE
    /\ space = [i \in 1 .. (SizeX * SizeY) |-> Place(i - 1, who_cpy)]
    /\ who = who_cpy
    /\ winner = "empty"
    /\ root = NULL
    /\ action2v = << >>
    /\ ply = 0
    /\ nodes = << >>
    /\ freeCount = << >>
    /\ uaf = FALSE
    /\ pc = "idle"
    /\ cur = NULL
    /\ sim = NULL
    /\ cur_state = EmptyBoard
    /\ result = 0
    /\ best_move = NoMove
    /\ iter = 0
    /\ calls = 0
    /\ placed = 0
    /\ scored = {}
    /\ counts = NoCounts
    /\ bonus = 0

\* take_action in search mode up to mcts's first line, which reads use_time[ply]; the
\* tree is left out, nothing in it reads or writes ply
PlyLookup ==
    /\ pc = "idle"
    /\ ~random_player
    /\ calls < MaxEpisodeMoves
    /\ calls' = calls + 1
    /\ pc' = "select"
    /\ UNCHANGED << config, space, who, winner, root, action2v, ply, nodes, freeCount, uaf,
                    cur, sim, cur_state, result, best_move, iter, placed, scored, heur >>

\* the rest of that take_action: mcts returns, ply++, the move is returned
PlyAdvance ==
    /\ pc = "select"
    /\ ply' = ply + 1
    /\ pc' = "idle"
    /\ UNCHANGED << config, space, who, winner, root, action2v, nodes, freeCount, uaf,
                    cur, sim, cur_state, result, best_move, iter, calls, placed, scored,
                    heur >>

PlyNext == PlyLookup \/ PlyAdvance

PlySpec == PlyInit /\ [][PlyNext]_vars

\* C19 (as stated): ply is 0 after open_episode, grows by 1 per search-mode take_action,
\* and names an entry of use_time at every lookup in mcts, however many take_action
\* calls the episode holds.
C19_PlyWithinUseTime ==
    /\ pc = "idle" => ply = calls
    /\ pc = "select" => (ply = calls - 1 /\ 0 <= ply /\ ply < UseTimeLen)

\* C20 (as stated): between the return of a search-mode take_action and the next
\* take_action or open_episode, root does not hold the address of a freed node.
C20_RootNotDangling ==
    pc = "idle" => (root = NULL \/ Live(root))

====
